---- MODULE Spec2Model ----
(***************************************************************************)
(* A model of the identity resolution and record-merging pipeline of       *)
(* csvtojson.py: read_csv_file, process_csv_files, parse_markdown_table,   *)
(* normalize_spanish_name, match_person_name, update_json_with_attendance  *)
(* and process_attendance_files.                                           *)
(*                                                                         *)
(* A Python str is a sequence of characters; a character is written as a   *)
(* one-element TLA+ string, except the characters outside ASCII, which are *)
(* named ("a_acute" is U+00E1, "comb_acute" is U+0301).  A dict is a       *)
(* sequence of <<key, value>> pairs in insertion order.                    *)
(***************************************************************************)
EXTENDS Integers, Sequences, FiniteSets, TLC

(***************************************************************************)
(* Bounds of the model.                                                    *)
(***************************************************************************)
MaxFiles == 2

MaxRows == 3

MaxAttendanceFiles == 2

(***************************************************************************)
(* str methods.                                                            *)
(***************************************************************************)
Whitespace == {" ", "\t"}

UpperSeq == <<"A", "B", "C", "D", "E", "F", "G", "H", "I", "J", "K", "L", "M",
              "N", "O", "P", "Q", "R", "S", "T", "U", "V", "W", "X", "Y", "Z">>

LowerSeq == <<"a", "b", "c", "d", "e", "f", "g", "h", "i", "j", "k", "l", "m",
              "n", "o", "p", "q", "r", "s", "t", "u", "v", "w", "x", "y", "z">>

Digits == {"0", "1", "2", "3", "4", "5", "6", "7", "8", "9"}

\* Precomposed accented letters and their canonical decomposition (NFD).
Decomposition ==
    [c \in {"a_acute", "A_acute", "e_acute", "E_acute", "n_tilde", "N_tilde"} |->
        CASE c = "a_acute" -> <<"a", "comb_acute">>
          [] c = "A_acute" -> <<"A", "comb_acute">>
          [] c = "e_acute" -> <<"e", "comb_acute">>
          [] c = "E_acute" -> <<"E", "comb_acute">>
          [] c = "n_tilde" -> <<"n", "comb_tilde">>
          [] c = "N_tilde" -> <<"N", "comb_tilde">>]

\* unicodedata.combining(c) # 0
Combining == {"comb_acute", "comb_tilde"}

\* The lower-case partner of a precomposed upper-case letter.
LowerAccented ==
    [c \in {"A_acute", "E_acute", "N_tilde"} |->
        CASE c = "A_acute" -> "a_acute"
          [] c = "E_acute" -> "e_acute"
          [] c = "N_tilde" -> "n_tilde"]

LowerChar(c) ==
    IF \E k \in 1..Len(UpperSeq) : UpperSeq[k] = c
    THEN LowerSeq[CHOOSE k \in 1..Len(UpperSeq) : UpperSeq[k] = c]
    ELSE IF c \in DOMAIN LowerAccented THEN LowerAccented[c] ELSE c

\* str.lower()
Lower(s) == [k \in 1..Len(s) |-> LowerChar(s[k])]

RECURSIVE LStrip(_)
LStrip(s) ==
    IF s # <<>> /\ Head(s) \in Whitespace THEN LStrip(Tail(s)) ELSE s

RECURSIVE RStrip(_)
RStrip(s) ==
    IF s # <<>> /\ s[Len(s)] \in Whitespace
    THEN RStrip(SubSeq(s, 1, Len(s) - 1))
    ELSE s

\* str.strip()
Strip(s) == RStrip(LStrip(s))

\* str.replace(" ", "")
RemoveSpaces(s) == SelectSeq(s, LAMBDA c : c # " ")

\* str.startswith(p)
StartsWith(s, p) == Len(s) >= Len(p) /\ SubSeq(s, 1, Len(p)) = p

\* str.split(): the maximal runs of non-whitespace characters, in order.
RECURSIVE SplitFrom(_, _, _)
SplitFrom(s, k, word) ==
    IF k > Len(s)
    THEN IF word = <<>> THEN <<>> ELSE <<word>>
    ELSE IF s[k] \in Whitespace
         THEN (IF word = <<>> THEN <<>> ELSE <<word>>) \o SplitFrom(s, k + 1, <<>>)
         ELSE SplitFrom(s, k + 1, Append(word, s[k]))

Split(s) == SplitFrom(s, 1, <<>>)

\* " ".join(words)
RECURSIVE JoinSpace(_)
JoinSpace(words) ==
    IF words = <<>> THEN <<>>
    ELSE IF Len(words) = 1 THEN words[1]
    ELSE words[1] \o <<" ">> \o JoinSpace(Tail(words))

Range(s) == {s[k] : k \in 1..Len(s)}

(***************************************************************************)
(* dict operations on sequences of <<key, value>> pairs.                   *)
(***************************************************************************)
DictKeys(d) == {d[k][1] : k \in 1..Len(d)}

DictGet(d, key) == d[CHOOSE k \in 1..Len(d) : d[k][1] = key][2]

\* d[key] = value: overwrite in place, or insert at the end.
DictSet(d, key, value) ==
    IF key \in DictKeys(d)
    THEN [k \in 1..Len(d) |-> IF d[k][1] = key THEN <<key, value>> ELSE d[k]]
    ELSE Append(d, <<key, value>>)

\* person.get(key, default) on a person dict (a function on its keys).
Get(person, key, default) ==
    IF key \in DOMAIN person THEN person[key] ELSE default

(***************************************************************************)
(* Paths.  A path is [dir, base]; base is the file name as a sequence of   *)
(* pieces, the extension being a piece of its own (<<"2023-1", ".csv">>).  *)
(***************************************************************************)
\* os.path.basename(path)
Basename(path) == path.base

\* os.path.join(dir, filename)
PathJoin(dir, filename) == [dir |-> dir, base |-> filename]

(***************************************************************************)
(* normalize_spanish_name                                                  *)
(***************************************************************************)
\* unicodedata.normalize('NFD', name)
RECURSIVE NFD(_)
NFD(s) ==
    IF s = <<>> THEN <<>>
    ELSE (IF Head(s) \in DOMAIN Decomposition
          THEN Decomposition[Head(s)]
          ELSE <<Head(s)>>) \o NFD(Tail(s))

\* normalize_spanish_name without the strip() of line 363.
NormalizeWithoutStrip(name) ==
    Lower(SelectSeq(NFD(name), LAMBDA c : c \notin Combining))

normalize_spanish_name(name) ==
    LET normalized == NFD(name)
        ascii_name == SelectSeq(normalized, LAMBDA c : c \notin Combining)
    IN  Strip(Lower(ascii_name))

(***************************************************************************)
(* simplify_question                                                       *)
(***************************************************************************)
Emojis == {"emoji_bust", "emoji_envelope", "emoji_phone", "emoji_cap",
           "emoji_wave", "emoji_thinking", "emoji_technologist",
           "emoji_speech", "emoji_memo", "emoji_robot", "emoji_hands"}

MaxQuestionLen == 30

ShortenBudget == 25

\* The loop of lines 25-30: the words kept while they fit the budget.
RECURSIVE Shorten(_, _)
Shorten(words, total_length) ==
    IF words = <<>> THEN <<>>
    ELSE IF total_length + Len(Head(words)) <= ShortenBudget
         THEN <<Head(words)>>
              \o Shorten(Tail(words), total_length + Len(Head(words)) + 1)
         ELSE <<>>

\* A character matched by \w.
IsWordChar(c) ==
    c \in Range(UpperSeq) \cup Range(LowerSeq) \cup Digits \cup {"_"}
          \cup DOMAIN Decomposition

\* re.sub(r'\s+', '_', s)
RECURSIVE UnderscoreRuns(_, _)
UnderscoreRuns(s, in_run) ==
    IF s = <<>> THEN <<>>
    ELSE IF Head(s) \in Whitespace
         THEN (IF in_run THEN <<>> ELSE <<"_">>) \o UnderscoreRuns(Tail(s), TRUE)
         ELSE <<Head(s)>> \o UnderscoreRuns(Tail(s), FALSE)

simplify_question(question) ==
    LET q1 == SelectSeq(question, LAMBDA c : c \notin Emojis)
        q2 == Strip(q1)
        words == Split(q2)
        shortened == Shorten(words, 0)
        q3 == IF Len(q2) > MaxQuestionLen
              THEN JoinSpace(shortened)
                   \o (IF Len(shortened) < Len(words)
                       THEN <<".", ".", ".">> ELSE <<>>)
              ELSE q2
        q4 == SelectSeq(q3, LAMBDA c : IsWordChar(c) \/ c \in Whitespace)
    IN  Lower(UnderscoreRuns(q4, FALSE))

(***************************************************************************)
(* read_csv_file                                                           *)
(***************************************************************************)
Categories == {"nombre", "correo", "telegram", "carrera", "generacion"}

no_telegram_indicators ==
    { <<"n", "o", " ", "t", "e", "n", "g", "o">>, <<"n", "o">>,
      <<"n", "o", "n", "e">>, <<"0">>, <<"n", "/", "a">>, <<"-">> }

\* Lines 102-112: the handling of a non-empty telegram cell at extraction.
TelegramAtExtraction(value) ==
    IF value = <<>> THEN value
    ELSE IF Lower(Strip(value)) \in no_telegram_indicators
         THEN <<>>
         ELSE LET v == RemoveSpaces(value)
              IN  IF StartsWith(v, <<"@">>) THEN v ELSE <<"@">> \o v

\* Lines 97-116: the contact value of one category of one row.
ContactValue(category, cell) ==
    LET value == Strip(cell)
    IN  IF category = "telegram" THEN TelegramAtExtraction(value) ELSE value

\* Lines 119-129: the responses of one row, a dict from slug to answer.  A
\* cell enters when it is truthy (not empty), and is stored stripped.
RECURSIVE EssayResponses(_, _, _)
EssayResponses(questions, answers, acc) ==
    IF questions = <<>> THEN acc
    ELSE LET short_question == simplify_question(Head(questions))
             cell == Head(answers)
         IN  EssayResponses(Tail(questions), Tail(answers),
                 IF cell # <<>>
                 THEN DictSet(acc, short_question, Strip(cell))
                 ELSE acc)

\* Lines 93-136: the person of one row.  A file is
\* [readable, mapped, questions, rows]: the categories contact_mapping has a column
\* for, the headers of the response columns, and the rows; a row is
\* [cells, answers].  The person has a key for each mapped category only.
PersonOfRow(filename, file, row) ==
    [key \in file.mapped \cup {"form", "essay_responses", "source"} |->
        CASE key = "form" -> Basename(filename)
          [] key = "essay_responses" ->
                 EssayResponses(file.questions, row.answers, <<>>)
          [] key = "source" -> filename
          [] OTHER -> ContactValue(key, row.cells[key])]

\* Lines 50-54: a line that holds only commas is skipped.
OnlyCommas(file, row) ==
    /\ \A c \in file.mapped : row.cells[c] = <<>>
    /\ \A k \in 1..Len(row.answers) : row.answers[k] = <<>>

\* A file open() or the csv reader raises on.
Unreadable == [readable |-> FALSE, mapped |-> {}, questions |-> <<>>, rows |-> <<>>]

\* Lines 44-141: the persons of a file, none when reading raises.
RECURSIVE PersonsOfRows(_, _, _)
PersonsOfRows(filename, file, rows) ==
    IF rows = <<>> THEN <<>>
    ELSE (IF OnlyCommas(file, Head(rows))
          THEN <<>>
          ELSE <<PersonOfRow(filename, file, Head(rows))>>)
         \o PersonsOfRows(filename, file, Tail(rows))

read_csv_file(filename, file) ==
    IF ~file.readable THEN <<>>
    ELSE PersonsOfRows(filename, file, file.rows)

(***************************************************************************)
(* process_csv_files: the bodies of its loops.                             *)
(***************************************************************************)
ContactFields == <<"nombre", "correo", "telegram", "carrera", "generacion">>

\* The test of lines 156-160 without the name.
HasIdentityWithoutName(person) ==
    \/ Strip(Get(person, "correo", <<>>)) # <<>>
    \/ Strip(Get(person, "telegram", <<>>)) # <<>>

\* Lines 156-160: the test that keeps a person.
HasIdentity(person) ==
    \/ Strip(Get(person, "correo", <<>>)) # <<>>
    \/ Strip(Get(person, "nombre", <<>>)) # <<>>
    \/ Strip(Get(person, "telegram", <<>>)) # <<>>

\* Lines 161-163: a kept person with a name gets its normalized name.
WithNormalizedName(person) ==
    LET nombre == Strip(Get(person, "nombre", <<>>))
    IN  IF nombre # <<>>
        THEN ("nombre_normalized" :> normalize_spanish_name(nombre)) @@ person
        ELSE person

no_email_ == <<"n", "o", "_", "e", "m", "a", "i", "l", "_">>

\* Lines 175-185: the key of the group of a person.
GroupKey(person) ==
    LET email == Lower(Strip(Get(person, "correo", <<>>)))
        name == Lower(Strip(Get(person, "nombre_normalized",
                                   Get(person, "nombre", <<>>))))
        telegram == Lower(Strip(Get(person, "telegram", <<>>)))
    IN  IF email # <<>>
        THEN email
        ELSE no_email_ \o name \o <<"_">> \o telegram

\* Lines 177-189 with the list of the key started anew each time.
GroupPersonIntoFresh(groups, person) ==
    DictSet(groups, GroupKey(person), <<person>>)

\* Lines 177-189: email_groups after one more person.
GroupPersonInto(groups, person) ==
    LET key == GroupKey(person)
    IN  IF key \in DictKeys(groups)
        THEN DictSet(groups, key, Append(DictGet(groups, key), person))
        ELSE DictSet(groups, key, <<person>>)

\* Lines 196-205: the merged person starts from the first of the group.
MergedFromFirst(group) ==
    [ nombre |-> Get(group[1], "nombre", <<>>),
      nombre_normalized |->
          Get(group[1], "nombre_normalized",
              normalize_spanish_name(Get(group[1], "nombre", <<>>))),
      correo |-> Get(group[1], "correo", <<>>),
      telegram |-> Get(group[1], "telegram", <<>>),
      carrera |-> Get(group[1], "carrera", <<>>),
      generacion |-> Get(group[1], "generacion", <<>>),
      postulaciones |-> <<>>,
      sources |-> <<>> ]

\* Lines 214-223 without the test of line 222.
TelegramAlwaysPrefixed(new_value) ==
    IF new_value = <<>> THEN new_value
    ELSE IF Lower(Strip(new_value)) \in no_telegram_indicators
         THEN <<>>
         ELSE <<"@">> \o RemoveSpaces(new_value)

\* Lines 214-223: the handling of a non-empty telegram value at merge.
TelegramAtMerge(new_value) ==
    IF new_value = <<>> THEN new_value
    ELSE IF Lower(Strip(new_value)) \in no_telegram_indicators
         THEN <<>>
         ELSE LET v == RemoveSpaces(new_value)
              IN  IF StartsWith(v, <<"@">>) THEN v ELSE <<"@">> \o v

\* Lines 225-228 with a candidate of the same length replacing the value.
BetterOrEqualValue(current, new_value) ==
    IF current = <<>> /\ new_value # <<>> THEN new_value
    ELSE IF current # <<>> /\ new_value # <<>> /\ Len(new_value) >= Len(current)
         THEN new_value
         ELSE current

\* Lines 225-228 with every non-empty candidate replacing the value.
LastValue(current, new_value) ==
    IF new_value # <<>> THEN new_value ELSE current

\* Lines 225-228: the value of a field after a candidate is seen.
BetterValue(current, new_value) ==
    IF current = <<>> /\ new_value # <<>> THEN new_value
    ELSE IF current # <<>> /\ new_value # <<>> /\ Len(new_value) > Len(current)
         THEN new_value
         ELSE current

\* Lines 209-228: merged after the contact fields of one person are seen.
MergeContact(m, person) ==
    [key \in DOMAIN m |->
        IF key \in Range(ContactFields)
        THEN LET raw == Get(person, key, <<>>)
                 new_value == IF key = "telegram" THEN TelegramAtMerge(raw) ELSE raw
             IN  BetterValue(m[key], new_value)
        ELSE m[key]]

form == <<"f", "o", "r", "m">>

\* Lines 241-242: the responses are copied into the postulacion dict.
RECURSIVE CopyResponses(_, _)
CopyResponses(postulacion, responses) ==
    IF responses = <<>> THEN postulacion
    ELSE CopyResponses(DictSet(postulacion, Head(responses)[1], Head(responses)[2]),
                       Tail(responses))

\* Lines 233-242: the postulacion of a person.
Postulacion(person) ==
    CopyResponses(<< <<form, Basename(Get(person, "source", "unknown"))>> >>,
                  Get(person, "essay_responses", <<>>))

\* Lines 231-250: merged after the postulacion and source of one person.
AddPostulacion(m, person) ==
    LET postulacion == Postulacion(person)
    IN  [m EXCEPT
           !.postulaciones = IF Len(postulacion) > 1
                             THEN Append(@, postulacion) ELSE @,
           !.sources = IF "source" \in DOMAIN person
                       THEN Append(@, person["source"]) ELSE @]

\* list(set(xs)): the elements of xs once each, in any order.
Orderings(S) ==
    {f \in [1..Cardinality(S) -> S] : \A a, b \in DOMAIN f : a # b => f[a] # f[b]}

\* Line 253 without the set: the list as it is.
ListWithDuplicates(xs) == {xs}

ListOfSet(xs) == Orderings(Range(xs))

(***************************************************************************)
(* parse_markdown_table.  A table file is [readable, lines]; a line is    *)
(* [pipe, cells]: whether it holds a '|', and the pieces line.split('|')   *)
(* gives.                                                                  *)
(***************************************************************************)
\* [cell.strip() for cell in line.split('|') if cell.strip()]
StrippedCells(line) ==
    SelectSeq([k \in 1..Len(line.cells) |-> Strip(line.cells[k])],
              LAMBDA cell : cell # <<>>)

\* Lines 285-291: the lines from the first one that holds a '|'.
TableLines(lines) ==
    IF \E k \in 1..Len(lines) : lines[k].pipe
    THEN SubSeq(lines, CHOOSE k \in 1..Len(lines) :
                          /\ lines[k].pipe
                          /\ \A h \in 1..(k - 1) : ~lines[h].pipe,
                Len(lines))
    ELSE lines

\* Lines 313-318: the statuses of one session row, by person name.
RECURSIVE SessionData(_, _, _, _)
SessionData(header, cells, j, acc) ==
    IF j > Len(cells) THEN acc
    ELSE SessionData(header, cells, j + 1,
             IF j <= Len(header) /\ cells[j] # <<>>
             THEN DictSet(acc, header[j], cells[j])
             ELSE acc)

\* Lines 300-318: sessions, a dict from session name to its statuses.
RECURSIVE Sessions(_, _, _, _)
Sessions(header, lines, k, acc) ==
    IF k > Len(lines) THEN acc
    ELSE LET cells == StrippedCells(lines[k])
         IN  Sessions(header, lines, k + 1,
                 IF ~lines[k].pipe \/ cells = <<>>
                 THEN acc
                 ELSE DictSet(acc, cells[1], SessionData(header, cells, 2, <<>>)))

\* Lines 332-334: the sessions of one person.
RECURSIVE PersonSessions(_, _, _)
PersonSessions(sessions, person_name, acc) ==
    IF sessions = <<>> THEN acc
    ELSE PersonSessions(Tail(sessions), person_name,
             IF person_name \in DictKeys(Head(sessions)[2])
             THEN DictSet(acc, Head(sessions)[1],
                          DictGet(Head(sessions)[2], person_name))
             ELSE acc)

CountStatus(person_sessions, statuses) ==
    Cardinality({k \in 1..Len(person_sessions) : person_sessions[k][2] \in statuses})

\* round(attended / total_sessions * 100, 2), in hundredths of a percent.
AttendanceRate(attended, total_sessions) ==
    IF total_sessions = 0 THEN 0
    ELSE LET q == (attended * 10000) \div total_sessions
             r == (attended * 10000) % total_sessions
         IN  IF 2 * r > total_sessions \/ (2 * r = total_sessions /\ q % 2 = 1)
             THEN q + 1 ELSE q

\* Lines 326-348: the attendance record of one person column.
AttendanceOf(course_name, sessions, person_name) ==
    LET person_sessions == PersonSessions(sessions, person_name, <<>>)
        attended == CountStatus(person_sessions, {<<"A">>, <<"X">>})
    IN  [ course |-> course_name,
          sessions |-> person_sessions,
          stats |-> [ total_sessions |-> Len(sessions),
                      attended |-> attended,
                      justified |-> CountStatus(person_sessions, {<<"J">>}),
                      attendance_rate |-> AttendanceRate(attended, Len(sessions)) ] ]

\* Lines 324-348: attendance_by_person, a dict from person name to record.
RECURSIVE AttendanceByPerson(_, _, _, _, _)
AttendanceByPerson(course_name, header, sessions, person_idx, acc) ==
    IF person_idx > Len(header) THEN acc
    ELSE AttendanceByPerson(course_name, header, sessions, person_idx + 1,
             DictSet(acc, header[person_idx],
                     AttendanceOf(course_name, sessions, header[person_idx])))

\* basename(file_path).replace('.md', '')
CourseName(file_path) ==
    SelectSeq(Basename(file_path), LAMBDA piece : piece # ".md")

\* Lines 281-294: open() or lines[0] raises.
ParseRaises(table) == ~table.readable \/ table.lines = <<>>

parse_markdown_table(file_path, table) ==
    LET lines == TableLines(table.lines)
        header == StrippedCells(lines[1])
        sessions == Sessions(header, lines, 3, <<>>)
    IN  AttendanceByPerson(CourseName(file_path), header, sessions, 2, <<>>)

(***************************************************************************)
(* match_person_name                                                       *)
(***************************************************************************)
common_words ==
    { <<"d", "e">>, <<"d", "e", "l">>, <<"l", "a">>, <<"l", "a", "s">>,
      <<"l", "o", "s">>, <<"y">>, <<"e">>, <<"d", "o", "n">>,
      <<"d", "o", "A_tilde", "plus_minus", "a">>, <<"d", "r">>,
      <<"d", "r", "a">> }

\* Lines 371-380 and 389-397: the words of a normalized name, without the
\* common words unless that leaves none.
NameWords(normalized) ==
    LET words == Range(Split(normalized))
        filtered == words \ common_words
    IN  IF filtered # {} THEN filtered ELSE words

None == 0

\* The scan of lines 386-421 without the test of lines 400-401.
RECURSIVE MatchWithoutExact(_, _, _, _, _, _)
MatchWithoutExact(name, people_data, idx, best_match, best_inter, best_union) ==
    LET name_words == NameWords(normalize_spanish_name(name))
    IN  IF idx > Len(people_data)
        THEN IF \/ 2 * best_inter >= best_union
                \/ (best_inter > 0 /\ Cardinality(name_words) <= 2)
             THEN best_match
             ELSE None
        ELSE LET person_words ==
                     NameWords(normalize_spanish_name(people_data[idx]["nombre"]))
                 intersection == Cardinality(name_words \cap person_words)
                 union == Cardinality(name_words \cup person_words)
             IN  IF /\ union > 0
                    /\ intersection > 0
                    /\ intersection * best_union > best_inter * union
                 THEN MatchWithoutExact(name, people_data, idx + 1,
                                        idx, intersection, union)
                 ELSE MatchWithoutExact(name, people_data, idx + 1,
                                        best_match, best_inter, best_union)

\* Lines 386-421: the scan from entry idx on, the best match so far being
\* best_match with score best_inter / best_union.
RECURSIVE MatchFrom(_, _, _, _, _, _)
MatchFrom(name, people_data, idx, best_match, best_inter, best_union) ==
    LET name_lower == Strip(Lower(name))
        name_normalized == normalize_spanish_name(name)
        name_words == NameWords(name_normalized)
    IN  IF idx > Len(people_data)
        THEN IF \/ 2 * best_inter >= best_union
                \/ (best_inter > 0 /\ Cardinality(name_words) <= 2)
             THEN best_match
             ELSE None
        ELSE LET person_name == people_data[idx]["nombre"]
                 person_normalized == normalize_spanish_name(person_name)
                 person_words == NameWords(person_normalized)
                 intersection == Cardinality(name_words \cap person_words)
                 union == Cardinality(name_words \cup person_words)
             IN  IF \/ name_lower = Strip(Lower(person_name))
                    \/ name_normalized = person_normalized
                 THEN idx
                 ELSE IF /\ union > 0
                         /\ intersection > 0
                         /\ intersection * best_union > best_inter * union
                      THEN MatchFrom(name, people_data, idx + 1,
                                     idx, intersection, union)
                      ELSE MatchFrom(name, people_data, idx + 1,
                                     best_match, best_inter, best_union)

match_person_name(name, people_data) ==
    MatchFrom(name, people_data, 1, None, 0, 1)

(***************************************************************************)
(* update_json_with_attendance and the loops of process_attendance_files   *)
(***************************************************************************)
\* Lines 432-441: the matched person after the record is attached.  The
\* record has no "source" key, so lines 439-441 add nothing.
WithAttendance(person, attendance) ==
    LET p == IF "attendance" \in DOMAIN person
             THEN person
             ELSE ("attendance" :> <<>>) @@ person
    IN  [p EXCEPT !["attendance"] = Append(@, attendance)]

RECURSIVE update_json_with_attendance(_, _)
update_json_with_attendance(people_data, attendance_data) ==
    IF attendance_data = <<>> THEN people_data
    ELSE LET name == Head(attendance_data)[1]
             attendance == Head(attendance_data)[2]
             person_idx == match_person_name(name, people_data)
         IN  update_json_with_attendance(
                 IF person_idx # None
                 THEN [people_data EXCEPT
                          ![person_idx] = WithAttendance(@, attendance)]
                 ELSE people_data,
                 Tail(attendance_data))

\* Lines 467-470 without the test of line 469.
WithSourceAgain(person, file_path) ==
    LET p == IF "sources" \in DOMAIN person
             THEN person
             ELSE ("sources" :> <<>>) @@ person
    IN  [p EXCEPT !["sources"] = Append(@, file_path)]

\* Lines 467-470: the matched person after the file path is recorded.
WithSource(person, file_path) ==
    LET p == IF "sources" \in DOMAIN person
             THEN person
             ELSE ("sources" :> <<>>) @@ person
    IN  IF file_path \in Range(p["sources"])
        THEN p
        ELSE [p EXCEPT !["sources"] = Append(@, file_path)]

\* process_attendance_files without the loop of lines 464-470.
SourcesAsTheyWere(people_data, attendance_data, file_path) == people_data

\* Lines 464-470: the sources of every matched person get the file path.
RECURSIVE AddFileToSources(_, _, _)
AddFileToSources(people_data, attendance_data, file_path) ==
    IF attendance_data = <<>> THEN people_data
    ELSE LET person_idx == match_person_name(Head(attendance_data)[1], people_data)
         IN  AddFileToSources(
                 IF person_idx # None
                 THEN [people_data EXCEPT
                          ![person_idx] = WithSource(@, file_path)]
                 ELSE people_data,
                 Tail(attendance_data), file_path)

\* filename.endswith('.md')
EndsWithMd(filename) == filename # <<>> /\ filename[Len(filename)] = ".md"

(***************************************************************************)
(* The state of a run of main().                                           *)
(***************************************************************************)
VARIABLES
    disk,             \* the content of each source file
    attdir,           \* the attendance directory: Missing, or its entries
    filenames,        \* the argument of process_csv_files
    pc,               \* the position of the run
    fi,               \* the file the loop of line 147 is at
    all_people,       \* line 145
    i,                \* the person the loops of lines 155 and 174 are at
    filtered_people,  \* line 152
    filtered_count,   \* line 153
    email_groups,     \* line 172
    gi,               \* the group the loop of line 194 is at
    pi,               \* the person the loops of lines 208 and 231 are at
    merged,           \* line 196
    result,           \* line 192, then people_data
    ai,               \* the entry the loop of line 452 is at
    prev              \* the result of an earlier call of process_csv_files

vars == <<disk, attdir, filenames, pc, fi, all_people, i, filtered_people,
          filtered_count, email_groups, gi, pi, merged, result, ai, prev>>

\* The attendance directory is [exists, entries].
Missing == [exists |-> FALSE, entries |-> <<>>]

Directory(entries) == [exists |-> TRUE, entries |-> entries]

\* Line 147-149: one file is read and its persons are appended.
ReadCsvFile ==
    /\ pc = "read"
    /\ fi <= Len(filenames)
    /\ all_people' = all_people \o read_csv_file(filenames[fi], disk[filenames[fi]])
    /\ fi' = fi + 1
    /\ pc' = IF fi = Len(filenames) THEN "filter" ELSE "read"
    /\ UNCHANGED <<disk, attdir, filenames, i, filtered_people, filtered_count,
                   email_groups, gi, pi, merged, result, ai, prev>>

\* Lines 155-166: one person is kept or counted as filtered out.
FilterPerson ==
    /\ pc = "filter"
    /\ i <= Len(all_people)
    /\ IF HasIdentity(all_people[i])
       THEN /\ filtered_people' =
                   Append(filtered_people, WithNormalizedName(all_people[i]))
            /\ UNCHANGED filtered_count
       ELSE /\ filtered_count' = filtered_count + 1
            /\ UNCHANGED filtered_people
    /\ i' = i + 1
    /\ UNCHANGED <<disk, attdir, filenames, pc, fi, all_people, email_groups,
                   gi, pi, merged, result, ai, prev>>

\* Lines 168-172: the count is reported and grouping starts; with nobody
\* to group, lines 174-257 return the empty result.
FilterReport ==
    /\ pc = "filter"
    /\ i > Len(all_people)
    /\ pc' = IF filtered_people = <<>> THEN "attendance" ELSE "group"
    /\ i' = 1
    /\ UNCHANGED <<disk, attdir, filenames, fi, all_people, filtered_people,
                   filtered_count, email_groups, gi, pi, merged, result, ai, prev>>

\* Lines 174-189: one person is put into the group of its key.
GroupPerson ==
    /\ pc = "group"
    /\ i <= Len(filtered_people)
    /\ email_groups' = GroupPersonInto(email_groups, filtered_people[i])
    /\ i' = i + 1
    /\ pc' = IF i = Len(filtered_people) THEN "merge" ELSE "group"
    /\ UNCHANGED <<disk, attdir, filenames, fi, all_people, filtered_people,
                   filtered_count, gi, pi, merged, result, ai, prev>>

\* Lines 194-205: the merge of the next group starts.
MergeStart ==
    /\ pc = "merge"
    /\ gi <= Len(email_groups)
    /\ merged' = MergedFromFirst(email_groups[gi][2])
    /\ pi' = 1
    /\ pc' = "contact"
    /\ UNCHANGED <<disk, attdir, filenames, fi, all_people, i, filtered_people,
                   filtered_count, email_groups, gi, result, ai, prev>>

\* Lines 208-228: the contact fields of one person of the group are seen.
MergePerson ==
    /\ pc = "contact"
    /\ pi <= Len(email_groups[gi][2])
    /\ merged' = MergeContact(merged, email_groups[gi][2][pi])
    /\ pi' = IF pi = Len(email_groups[gi][2]) THEN 1 ELSE pi + 1
    /\ pc' = IF pi = Len(email_groups[gi][2]) THEN "postulaciones" ELSE "contact"
    /\ UNCHANGED <<disk, attdir, filenames, fi, all_people, i, filtered_people,
                   filtered_count, email_groups, gi, result, ai, prev>>

\* Lines 231-250: the postulacion and the source of one person are added.
AddPersonPostulacion ==
    /\ pc = "postulaciones"
    /\ pi <= Len(email_groups[gi][2])
    /\ merged' = AddPostulacion(merged, email_groups[gi][2][pi])
    /\ pi' = pi + 1
    /\ UNCHANGED <<disk, attdir, filenames, pc, fi, all_people, i,
                   filtered_people, filtered_count, email_groups, gi, result,
                   ai, prev>>

\* Lines 253-257: the sources are deduplicated, in an order the set decides,
\* and the merged person joins the result.
MergeFinish ==
    /\ pc = "postulaciones"
    /\ pi > Len(email_groups[gi][2])
    /\ \E sources \in ListOfSet(merged.sources) :
           result' = Append(result, [merged EXCEPT !.sources = sources])
    /\ gi' = gi + 1
    /\ pc' = IF gi = Len(email_groups) THEN "attendance" ELSE "merge"
    /\ UNCHANGED <<disk, attdir, filenames, fi, all_people, i, filtered_people,
                   filtered_count, email_groups, pi, merged, ai, prev>>

\* Lines 447-452: without the directory people_data is returned as it is.
StartAttendance ==
    /\ pc = "attendance"
    /\ pc' = IF ~attdir.exists THEN "done"
             ELSE IF attdir.entries = <<>> THEN "done" ELSE "listing"
    /\ ai' = 1
    /\ UNCHANGED <<disk, attdir, filenames, fi, all_people, i, filtered_people,
                   filtered_count, email_groups, gi, pi, merged, result, prev>>

\* Lines 452-470: one entry of the directory.  An entry is [name, table].
ProcessAttendanceFile ==
    /\ pc = "listing"
    /\ ai <= Len(attdir.entries)
    /\ LET filename == attdir.entries[ai].name
           file_path == PathJoin("./sources/attendance", filename)
           table == attdir.entries[ai].table
       IN  IF ~EndsWithMd(filename)
           THEN /\ result' = result
                /\ pc' = IF ai = Len(attdir.entries) THEN "done" ELSE "listing"
           ELSE IF ParseRaises(table)
                THEN /\ result' = result
                     /\ pc' = "raised"
                ELSE LET attendance_data == parse_markdown_table(file_path, table)
                         people_data ==
                             update_json_with_attendance(result, attendance_data)
                     IN  /\ result' = AddFileToSources(people_data,
                                                       attendance_data, file_path)
                         /\ pc' = IF ai = Len(attdir.entries) THEN "done" ELSE "listing"
    /\ ai' = ai + 1
    /\ UNCHANGED <<disk, attdir, filenames, fi, all_people, i, filtered_people,
                   filtered_count, email_groups, gi, pi, merged, prev>>

Next ==
    \/ ReadCsvFile
    \/ FilterPerson
    \/ FilterReport
    \/ GroupPerson
    \/ MergeStart
    \/ MergePerson
    \/ AddPersonPostulacion
    \/ MergeFinish
    \/ StartAttendance
    \/ ProcessAttendanceFile

\* process_csv_files is called once more on the same files in another order;
\* the result of the first call is kept in prev.
CallAgain ==
    /\ pc = "attendance"
    /\ ~prev.called
    /\ prev' = [called |-> TRUE, result |-> result, groups |-> email_groups]
    /\ filenames' \in Orderings(Range(filenames))
    /\ pc' = "read"
    /\ fi' = 1
    /\ all_people' = <<>>
    /\ i' = 1
    /\ filtered_people' = <<>>
    /\ filtered_count' = 0
    /\ email_groups' = <<>>
    /\ gi' = 1
    /\ pi' = 1
    /\ merged' = <<>>
    /\ result' = <<>>
    /\ UNCHANGED <<disk, attdir, ai>>

NextAgain == Next \/ CallAgain

(***************************************************************************)
(* The inputs of a run: the source files and the attendance directory.     *)
(***************************************************************************)
\* Lines 476-483: the names of the source files, in the order of main().
CsvNames == <<"2023-1", "2023-2", "2024-1", "2024-2", "2024-2-batalla",
              "2024-2-concordia", "general-interest">>

CsvPath(k) == [dir |-> "./sources/", base |-> <<CsvNames[k], ".csv">>]

CsvFilenames == [k \in 1..MaxFiles |-> CsvPath(k)]

SeqsUpTo(S, n) == UNION {[1..k -> S] : k \in 0..n}

\* A row with one response column.
Row(nombre, correo, telegram, carrera, generacion, answer) ==
    [ cells |-> [ nombre |-> nombre, correo |-> correo, telegram |-> telegram,
                  carrera |-> carrera, generacion |-> generacion ],
      answers |-> <<answer>> ]

\* A header: the contact categories it has a column for, and the question
\* of its response column.
Header(mapped, question) == [mapped |-> mapped, questions |-> <<question>>]

\* The contents a file may have: unreadable, or a header of headers and at
\* most budget rows of rowset.
Contents(rowset, headers, budget) ==
    {Unreadable} \cup
    { [readable |-> TRUE, mapped |-> h.mapped, questions |-> h.questions,
        rows |-> rows] :
          h \in headers, rows \in SeqsUpTo(rowset, budget) }

RowCount(content) == Len(content.rows)

\* The contents of n files holding at most budget rows together.
RECURSIVE ContentSeqs(_, _, _, _)
ContentSeqs(rowset, headers, n, budget) ==
    IF n = 0 THEN {<<>>}
    ELSE UNION { { <<c>> \o rest :
                     rest \in ContentSeqs(rowset, headers, n - 1,
                                          budget - RowCount(c)) } :
                 c \in Contents(rowset, headers, budget) }

\* The disks: every file of main() has a content.
Disks(rowset, headers) ==
    { [path \in Range(CsvFilenames) |->
          cs[CHOOSE k \in 1..MaxFiles : CsvFilenames[k] = path]] :
      cs \in ContentSeqs(rowset, headers, MaxFiles, MaxRows) }

\* An entry of the attendance directory.
Entry(name, table) == [name |-> name, table |-> table]

PipeLine(cells) == [pipe |-> TRUE, cells |-> cells]

InitWith(disks, attdirs) ==
    /\ disk \in disks
    /\ attdir \in attdirs
    /\ filenames = CsvFilenames
    /\ pc = "read"
    /\ fi = 1
    /\ all_people = <<>>
    /\ i = 1
    /\ filtered_people = <<>>
    /\ filtered_count = 0
    /\ email_groups = <<>>
    /\ gi = 1
    /\ pi = 1
    /\ merged = <<>>
    /\ result = <<>>
    /\ ai = 1
    /\ prev = [called |-> FALSE, result |-> <<>>, groups |-> <<>>]

\* Strings of the inputs.
sAl == <<"A", "l">>

sAlB == <<"A", "l", " ", "B">>

sMailLower == <<"a", "@", "x">>

sMailUpper == <<" ", "A", "@", "X">>

sNo == <<"N", "o">>

sHandle == <<"b">>

sCs == <<"c", "s">>

sOk == <<"o", "k">>

sBlank == <<" ">>

sWhy == <<"W", "h", "y", "?">>

sSesion == <<"S", "e", "s", "i", "o", "n">>

sS1 == <<" ", "S", "1", " ">>

sA == <<"A">>

FullHeader == Header(Categories, sWhy)

RowsMain ==
    { Row(sAl, sMailLower, <<>>, <<>>, <<>>, sOk),
      Row(<<>>, sMailUpper, sHandle, sCs, <<>>, <<>>),
      Row(<<>>, <<>>, sNo, sCs, <<>>, sOk),
      Row(sAl, <<>>, <<>>, <<>>, <<>>, sBlank),
      Row(<<>>, <<>>, <<>>, <<>>, <<>>, <<>>) }

TableMain ==
    [ readable |-> TRUE,
      lines |-> << PipeLine(<<<<>>, sSesion, sAl, sAlB, <<>>>>),
                   PipeLine(<<<<>>, <<"-">>, <<"-">>, <<"-">>, <<>>>>),
                   PipeLine(<<<<>>, sS1, sA, sA, <<>>>>) >> ]

AttDirsMain == { Missing, Directory(<<Entry(<<"intro", ".md">>, TableMain)>>) }

Init == InitWith(Disks(RowsMain, {FullHeader}), AttDirsMain)

Spec == Init /\ [][Next]_vars

(***************************************************************************)
(* Vocabulary of the properties.                                           *)
(***************************************************************************)
Count(seq, x) == Cardinality({k \in 1..Len(seq) : seq[k] = x})

Members(g) == email_groups[g][2]

\* The positions of a run at which the loop of line 174 has ended.
Grouped == pc \in {"merge", "contact", "postulaciones", "attendance",
                  "listing", "done", "raised"}

\* The positions of a run at which the loop of line 155 has ended.
Filtered == pc \notin {"read", "filter"}

RECURSIVE SumOfSizes(_)
SumOfSizes(groups) ==
    IF groups = <<>> THEN 0 ELSE Len(Head(groups)[2]) + SumOfSizes(Tail(groups))

\* A person without the key the filter adds.
AsExtracted(person) ==
    [key \in DOMAIN person \ {"nombre_normalized"} |-> person[key]]

Field(person, key) == IF key \in DOMAIN person THEN person[key] ELSE <<>>

\* C1: once grouping has ended the groups are a partition of the surviving
\* records: the group sizes add up to the number of surviving records,
\* every surviving record is in exactly one group, as often as it survived,
\* and every member of a group is a surviving record, never one that was
\* filtered out.
GroupingIsPartition ==
    Grouped =>
        /\ SumOfSizes(email_groups) = Len(filtered_people)
        /\ \A k \in 1..Len(filtered_people) :
              /\ Cardinality({g \in 1..Len(email_groups) :
                                 filtered_people[k] \in Range(Members(g))}) = 1
              /\ \E g \in 1..Len(email_groups) :
                    Count(Members(g), filtered_people[k])
                        = Count(filtered_people, filtered_people[k])
        /\ \A g \in 1..Len(email_groups) :
              \A m \in 1..Len(Members(g)) :
                  /\ Members(g)[m] \in Range(filtered_people)
                  /\ \E k \in 1..Len(all_people) :
                        /\ AsExtracted(Members(g)[m]) = all_people[k]
                        /\ \/ Field(all_people[k], "nombre") # <<>>
                           \/ Field(all_people[k], "correo") # <<>>
                           \/ Field(all_people[k], "telegram") # <<>>

\* C1, its case: grouping has ended with two groups, one of them of two
\* records.
GroupingIsPartitionWitness ==
    /\ pc = "merge"
    /\ Len(email_groups) >= 2
    /\ \E g \in 1..Len(email_groups) : Len(Members(g)) >= 2

\* The rows of the readable files that are extracted, in reading order.
RECURSIVE ExtractedRows(_)
ExtractedRows(names) ==
    IF names = <<>> THEN <<>>
    ELSE (IF disk[Head(names)].readable
          THEN SelectSeq(disk[Head(names)].rows,
                         LAMBDA row : ~OnlyCommas(disk[Head(names)], row))
          ELSE <<>>) \o ExtractedRows(Tail(names))

\* The identity fields of a record are all empty.
NoLinkableIdentity(person) ==
    /\ Strip(Field(person, "nombre")) = <<>>
    /\ Strip(Field(person, "correo")) = <<>>
    /\ Strip(Field(person, "telegram")) = <<>>

\* C9: once the filter has ended, the records kept are, in order, exactly
\* the extracted records whose name, email and handle are not all empty,
\* one record was extracted for every row of every readable file, and once
\* grouping has ended every kept record is in a group.
DiscardedIffNoIdentity ==
    Filtered =>
        /\ Len(all_people) = Len(ExtractedRows(filenames))
        /\ [k \in 1..Len(filtered_people) |-> AsExtracted(filtered_people[k])]
               = SelectSeq(all_people, LAMBDA p : ~NoLinkableIdentity(p))
        /\ filtered_count
               = Len(SelectSeq(all_people, LAMBDA p : NoLinkableIdentity(p)))
        /\ Grouped =>
              \A k \in 1..Len(all_people) :
                  ~NoLinkableIdentity(all_people[k]) =>
                      \E g \in 1..Len(email_groups) :
                          \E m \in 1..Len(Members(g)) :
                              AsExtracted(Members(g)[m]) = all_people[k]

\* C9, its case: a record with a program but no name, email or handle was
\* discarded, and a record with a name alone was kept.
DiscardedIffNoIdentityWitness ==
    /\ pc = "merge"
    /\ filtered_count > 0
    /\ \E k \in 1..Len(all_people) :
          /\ NoLinkableIdentity(all_people[k])
          /\ Field(all_people[k], "carrera") # <<>>
    /\ \E k \in 1..Len(filtered_people) :
          /\ Field(filtered_people[k], "correo") = <<>>
          /\ Field(filtered_people[k], "telegram") = <<>>

(***************************************************************************)
(* The merge of contact fields, on records that share an email.            *)
(***************************************************************************)
sAlC == <<"A", "l", " ", "C">>

sAtC == <<"@", "c">>

sEe == <<"e", "e">>

s21 == <<"2", "1">>

s2 == <<"2">>

RowsMerge ==
    { Row(sAl, sMailLower, sHandle, sCs, <<>>, sOk),
      Row(sAlB, sMailUpper, sNo, <<>>, s21, <<>>),
      Row(sAlC, sMailLower, sAtC, sEe, s2, sOk),
      Row(sAl, <<>>, <<>>, <<>>, <<>>, sOk) }

AttDirsOne == { Directory(<<Entry(<<"intro", ".md">>, TableMain)>>) }

InitMerge == InitWith(Disks(RowsMerge, {FullHeader}), AttDirsOne)

SpecMerge == InitMerge /\ [][Next]_vars

\* The longest value, the first one of that length; empty if all are.
LongestFirst(values) ==
    IF \A k \in 1..Len(values) : values[k] = <<>>
    THEN <<>>
    ELSE values[CHOOSE k \in 1..Len(values) :
                   /\ \A h \in 1..Len(values) : Len(values[h]) <= Len(values[k])
                   /\ \A h \in 1..(k - 1) : Len(values[h]) < Len(values[k])]

\* C4: each contact field of a merged person is the longest value of that
\* field among the records of its group, the first of that length in input
\* order, and is empty only if the field of every record is empty.
MergedIsLongestFirst ==
    \A g \in 1..Len(result) :
        \A f \in Range(ContactFields) :
            result[g][f] = LongestFirst([m \in 1..Len(Members(g)) |->
                                            Field(Members(g)[m], f)])

\* C4, its case: a group of three whose second name is longer than the
\* first and as long as the third, a different one; the second is kept.
MergedIsLongestFirstWitness ==
    /\ pc = "done"
    /\ \E g \in 1..Len(result) :
          /\ Len(Members(g)) = 3
          /\ Len(Members(g)[1]["nombre"]) < Len(Members(g)[2]["nombre"])
          /\ Len(Members(g)[3]["nombre"]) = Len(Members(g)[2]["nombre"])
          /\ Members(g)[3]["nombre"] # Members(g)[2]["nombre"]
          /\ result[g]["nombre"] = Members(g)[2]["nombre"]

IdentityFields == Range(ContactFields) \cup {"nombre_normalized"}

\* C5: while the contact fields of the records of a group are merged, a
\* field that is not empty stays not empty, and a field that changes
\* changes to a value that is not empty and not shorter.
MergeIsMonotone ==
    [][ (pc = "contact" /\ pc' \in {"contact", "postulaciones"}) =>
            \A f \in IdentityFields :
                /\ merged[f] # <<>> => merged'[f] # <<>>
                /\ merged'[f] # merged[f] =>
                      /\ merged'[f] # <<>>
                      /\ Len(merged'[f]) >= Len(merged[f]) ]_vars

\* C5, its case: two records of a group are merged, the name was replaced
\* by a longer one and the cohort, empty in the first record, was set.
MergeIsMonotoneWitness ==
    /\ pc = "contact"
    /\ pi = 3
    /\ Members(gi)[1]["nombre"] # <<>>
    /\ merged["nombre"] # Members(gi)[1]["nombre"]
    /\ Members(gi)[1]["generacion"] = <<>>
    /\ merged["generacion"] # <<>>

(***************************************************************************)
(* Submissions, on records that share an email.                            *)
(***************************************************************************)
sForm == <<"F", "o", "r", "m">>

RowsSubs ==
    { Row(sAl, sMailLower, <<>>, <<>>, <<>>, sOk),
      Row(<<>>, sMailUpper, <<>>, <<>>, <<>>, sBlank),
      Row(<<>>, sMailLower, <<>>, <<>>, <<>>, <<>>) }

InitSubs ==
    InitWith(Disks(RowsSubs, {FullHeader, Header(Categories, sForm)}), AttDirsOne)

SpecSubs == InitSubs /\ [][Next]_vars

NormalizedEmail(person) == Lower(Strip(Field(person, "correo")))

\* The record carries a response that is not empty.
HasResponse(person) ==
    \E k \in 1..Len(person["essay_responses"]) :
        person["essay_responses"][k][2] # <<>>

\* The records among the kept ones that carry the email.
WithEmail(email) ==
    SelectSeq(filtered_people, LAMBDA p : NormalizedEmail(p) = email)

\* C2: when process_csv_files returns, for every email carried by k rows of
\* k different files that each carry a response that is not empty, exactly
\* one person of the result has that email, and that person has k
\* submission bundles and k sources, all different.
OnePersonPerEmail ==
    pc = "attendance" =>
        \A q \in Range(filtered_people) :
            LET email == NormalizedEmail(q)
                rows == WithEmail(email)
            IN  ( /\ email # <<>>
                  /\ Cardinality({rows[k]["source"] : k \in 1..Len(rows)})
                         = Len(rows)
                  /\ \A k \in 1..Len(rows) : HasResponse(rows[k]) )
                => /\ Cardinality({g \in 1..Len(result) :
                                      NormalizedEmail(result[g]) = email}) = 1
                   /\ \A g \in 1..Len(result) :
                         NormalizedEmail(result[g]) = email =>
                             /\ Len(result[g]["postulaciones"]) = Len(rows)
                             /\ Len(result[g]["sources"]) = Len(rows)
                             /\ Cardinality(Range(result[g]["sources"])) = Len(rows)

\* C6: the submissions of a merged person are the bundles of exactly the
\* records of its group that carry a response that is not empty, in the
\* order of the group: each bundle holds the responses of its record that
\* are not empty, at least one of them.
SubmissionsAreNonEmptyBundles ==
    \A g \in 1..Len(result) :
        LET kept == SelectSeq(Members(g), HasResponse)
            bundles == result[g]["postulaciones"]
        IN  /\ Len(bundles) = Len(kept)
            /\ \A k \in 1..Len(bundles) :
                  /\ \E j \in 1..Len(bundles[k]) :
                        bundles[k][j][1] # form /\ bundles[k][j][2] # <<>>
                  /\ k <= Len(kept) =>
                        \A j \in 1..Len(kept[k]["essay_responses"]) :
                            kept[k]["essay_responses"][j][2] # <<>> =>
                                kept[k]["essay_responses"][j] \in Range(bundles[k])

(***************************************************************************)
(* The fallback key, on records without an email.                          *)
(***************************************************************************)
sNameWithHandle == <<"a", "_", "@", "b">>

sLowerA == <<"a">>

sHandleUnderscore == <<"b", "_">>

sHandleUpper == <<"B", "_">>

RowsKeys ==
    { Row(sNameWithHandle, <<>>, <<>>, <<>>, <<>>, sOk),
      Row(sLowerA, <<>>, sHandleUnderscore, <<>>, <<>>, sOk),
      Row(sA, <<>>, <<>>, <<>>, <<>>, <<>>),
      Row(<<>>, <<>>, sHandleUpper, <<>>, <<>>, sOk) }

InitKeys == InitWith(Disks(RowsKeys, {FullHeader}), AttDirsOne)

SpecKeys == InitKeys /\ [][Next]_vars

SameGroup(p, q) ==
    \E g \in 1..Len(email_groups) :
        p \in Range(Members(g)) /\ q \in Range(Members(g))

NormalizedName(person) == Lower(Strip(Field(person, "nombre_normalized")))

NormalizedHandle(person) == Lower(Strip(Field(person, "telegram")))

\* C3: once grouping has ended, two kept records without an email are in
\* the same group if and only if their normalized names are equal and their
\* normalized handles are equal.
FallbackKeyIsPair ==
    Grouped =>
        \A p, q \in Range(filtered_people) :
            (NormalizedEmail(p) = <<>> /\ NormalizedEmail(q) = <<>>) =>
                ( SameGroup(p, q) <=>
                      /\ NormalizedName(p) = NormalizedName(q)
                      /\ NormalizedHandle(p) = NormalizedHandle(q) )

(***************************************************************************)
(* Sources, with attendance files whose names match the merged persons.    *)
(***************************************************************************)
sZed == <<"Z", "e", "d">>

sS2 == <<"S", "2">>

sX == <<"X">>

RowsAtt ==
    { Row(sAlB, sMailLower, <<>>, <<>>, <<>>, sOk),
      Row(sAl, sMailUpper, <<>>, <<>>, <<>>, sOk) }

TableTwo ==
    [ readable |-> TRUE,
      lines |-> << PipeLine(<<<<>>, sSesion, sAlB, sZed, <<>>>>),
                   PipeLine(<<<<>>, <<"-">>, <<"-">>, <<"-">>, <<>>>>),
                   PipeLine(<<<<>>, sS1, sA, sX, <<>>>>),
                   PipeLine(<<<<>>, sS2, sBlank, sA, <<>>>>) >> ]

UnreadableTable == [readable |-> FALSE, lines |-> <<>>]

EntriesAtt ==
    { Entry(<<"intro", ".md">>, TableMain),
      Entry(<<"advanced", ".md">>, TableTwo),
      Entry(<<"broken", ".md">>, UnreadableTable) }

\* The directories: absent, or at most MaxAttendanceFiles entries of
\* different names, in the order os.listdir gives.
Directories(entries) ==
    {Missing} \cup
    { Directory(es) : es \in { e \in SeqsUpTo(entries, MaxAttendanceFiles) :
                                 \A a, b \in DOMAIN e :
                                     a # b => e[a].name # e[b].name } }

InitAtt == InitWith(Disks(RowsAtt, {FullHeader}), Directories(EntriesAtt))

SpecAtt == InitAtt /\ [][Next]_vars

Provenance(g) == {Members(g)[m]["source"] : m \in 1..Len(Members(g))}

\* The paths of the attendance files processed so far.
ProcessedFiles ==
    IF pc \in {"listing", "done", "raised"}
    THEN {PathJoin("./sources/attendance", attdir.entries[k].name) :
              k \in 1..(ai - 1)}
    ELSE {}

\* C7: the sources of a merged person never hold an entry twice; they hold
\* every source file of the records of its group, exactly those until
\* attendance files are processed, and after that no other entry than
\* attendance files that were processed.
SourcesAreDeduplicatedUnion ==
    \A g \in 1..Len(result) :
        LET sources == result[g]["sources"]
        IN  /\ Cardinality(Range(sources)) = Len(sources)
            /\ Provenance(g) \subseteq Range(sources)
            /\ Range(sources) \subseteq Provenance(g) \cup ProcessedFiles

\* C7, its case: two records of a group come from the same file, and two
\* names of one attendance file were matched to the merged person.
SourcesAreDeduplicatedUnionWitness ==
    /\ pc = "done"
    /\ \E g \in 1..Len(result) :
          /\ Len(Members(g)) > Cardinality(Provenance(g))
          /\ "attendance" \in DOMAIN result[g]
          /\ \E a, b \in 1..Len(result[g]["attendance"]) :
                /\ a # b
                /\ result[g]["attendance"][a].course
                       = result[g]["attendance"][b].course
          /\ Len(result[g]["sources"]) > Cardinality(Provenance(g))

(***************************************************************************)
(* Two calls of process_csv_files on the same files in two orders.         *)
(***************************************************************************)
RowsAgain ==
    { Row(sAl, sMailLower, sHandle, <<>>, <<>>, sOk),
      Row(sAlB, sMailUpper, <<>>, sCs, <<>>, sOk),
      Row(sAlC, <<>>, <<>>, sEe, <<>>, sBlank) }

InitAgain == InitWith(Disks(RowsAgain, {FullHeader}), AttDirsOne)

SpecAgain == InitAgain /\ [][NextAgain]_vars

SameBag(xs, ys) ==
    /\ Len(xs) = Len(ys)
    /\ \A k \in 1..Len(xs) : Count(xs, xs[k]) = Count(ys, xs[k])

\* Two records of the group carry different values of the field that are
\* equally long.
HasTie(group, f) ==
    \E a, b \in 1..Len(group) :
        /\ Field(group[a], f) # Field(group[b], f)
        /\ Field(group[a], f) # <<>>
        /\ Len(Field(group[a], f)) = Len(Field(group[b], f))

\* C8: when the second call returns, it has made the groups of the first
\* call, and the persons of a group have the same set of sources and the
\* same bag of submission bundles in both results; an identity field of
\* the two differs only if two records of the group carry different values
\* of it that are equally long.
OrderInsensitive ==
    (pc = "attendance" /\ prev.called) =>
        /\ Len(prev.groups) = Len(email_groups)
        /\ \A g \in 1..Len(email_groups) :
              \E h \in 1..Len(prev.groups) :
                  /\ prev.groups[h][1] = email_groups[g][1]
                  /\ SameBag(prev.groups[h][2], email_groups[g][2])
                  /\ Range(prev.result[h]["sources"])
                         = Range(result[g]["sources"])
                  /\ SameBag(prev.result[h]["postulaciones"],
                             result[g]["postulaciones"])
                  /\ \A f \in IdentityFields :
                        prev.result[h][f] # result[g][f] =>
                            HasTie(email_groups[g][2], f)

(***************************************************************************)
(* The handle of a record, on every short telegram cell.                   *)
(***************************************************************************)
MaxHandleLen == 2

HandleAlphabet == {"n", "O", " ", "\t", "@", "-", "b"}

sNoTengo == <<"N", "o", " ", "T", "e", "n", "g", "o">>

sNone == <<"n", "o", "n", "e">>

sNA == <<"N", "/", "A">>

sZero == <<" ", "0">>

sSpacedNo == <<"n", " ", "o">>

sTwoSpaces == <<"n", "o", " ", " ", "t", "e", "n", "g", "o">>

sSpacedHandle == <<"@", " ", "b", " ", "c">>

TelegramCells ==
    SeqsUpTo(HandleAlphabet, MaxHandleLen)
        \cup {sNoTengo, sNone, sNA, sZero, sSpacedNo, sTwoSpaces, sSpacedHandle}

\* The disks whose first file holds one row of rowset and whose other
\* files hold none.
SingleRowDisks(rowset) ==
    { [path \in Range(CsvFilenames) |->
          [ readable |-> TRUE, mapped |-> FullHeader.mapped,
            questions |-> FullHeader.questions,
            rows |-> IF path = CsvFilenames[1] THEN <<row>> ELSE <<>> ]] :
      row \in rowset }

InitTelegram ==
    InitWith(SingleRowDisks({ Row(<<>>, sMailLower, cell, <<>>, <<>>, sOk) :
                                  cell \in TelegramCells }),
             AttDirsOne)

SpecTelegram == InitTelegram /\ [][Next]_vars

NoHandleTokens ==
    { <<"n", "o", " ", "t", "e", "n", "g", "o">>, <<"n", "o">>,
      <<"n", "o", "n", "e">>, <<"0">>, <<"n", "/", "a">>, <<"-">> }

\* The handle of a cell: empty for an empty cell and for a no-handle token
\* in any case, and else the value without spaces, after an "@" unless it
\* starts with one.
ExpectedHandle(cell) ==
    LET value == Strip(cell)
        spaceless == SelectSeq(value, LAMBDA c : c # " ")
    IN  IF value = <<>> \/ Lower(value) \in NoHandleTokens
        THEN <<>>
        ELSE IF Head(spaceless) = "@" THEN spaceless ELSE <<"@">> \o spaceless

\* C10: the handle of every extracted record is the handle of its cell, the
\* normalization of the merge leaves it as it is, and so does the merge of
\* a group of one record.
HandleNormalization ==
    /\ \A k \in 1..Len(all_people) :
          /\ all_people[k]["telegram"]
                 = ExpectedHandle(ExtractedRows(filenames)[k].cells["telegram"])
          /\ TelegramAtMerge(all_people[k]["telegram"]) = all_people[k]["telegram"]
    /\ \A g \in 1..Len(result) :
          Len(Members(g)) = 1 =>
              result[g]["telegram"] = Members(g)[1]["telegram"]

\* C10, its case: a cell with a space and without an "@" was extracted as a
\* handle and merged.
HandleNormalizationWitness ==
    /\ pc = "done"
    /\ Len(result) = 1
    /\ \E row \in Range(ExtractedRows(filenames)) :
          /\ " " \in Range(Strip(row.cells["telegram"]))
          /\ "@" \notin Range(row.cells["telegram"])
    /\ result[1]["telegram"] # <<>>

(***************************************************************************)
(* normalize_spanish_name, on every short name.                            *)
(***************************************************************************)
MaxNameLen == 3

NameAlphabet == {"a", "A", "a_acute", "N_tilde", "comb_acute", " "}

NameCells == SeqsUpTo(NameAlphabet, MaxNameLen)

InitNormalize ==
    InitWith(SingleRowDisks({ Row(cell, sMailLower, <<>>, <<>>, <<>>, sOk) :
                                  cell \in NameCells }),
             AttDirsOne)

SpecNormalize == InitNormalize /\ [][Next]_vars

\* The upper-case partner of a lower-case letter.
UpperChar(c) ==
    IF \E k \in 1..Len(LowerSeq) : LowerSeq[k] = c
    THEN UpperSeq[CHOOSE k \in 1..Len(LowerSeq) : LowerSeq[k] = c]
    ELSE IF \E u \in DOMAIN LowerAccented : LowerAccented[u] = c
         THEN CHOOSE u \in DOMAIN LowerAccented : LowerAccented[u] = c
         ELSE c

Upper(s) == [k \in 1..Len(s) |-> UpperChar(s[k])]

\* The letter without its mark, for a precomposed letter.
BaseLetter(c) == IF c \in DOMAIN Decomposition THEN Decomposition[c][1] ELSE c

\* The name with every mark taken away.
WithoutMarks(s) ==
    SelectSeq([k \in 1..Len(s) |-> BaseLetter(s[k])], LAMBDA c : c \notin Combining)

\* The name with a mark on every letter that has a precomposed form.
WithMarks(s) ==
    [k \in 1..Len(s) |->
        IF \E c \in DOMAIN Decomposition : Decomposition[c][1] = s[k]
        THEN CHOOSE c \in DOMAIN Decomposition : Decomposition[c][1] = s[k]
        ELSE s[k]]

\* Names that differ from the name only in letter case, in diacritics or in
\* surrounding whitespace.
Variants(name) ==
    { Upper(name), Lower(name), WithoutMarks(name), WithMarks(name),
      NFD(name), <<" ", "\t">> \o name, name \o <<"\t", " ">>,
      <<" ">> \o Upper(WithMarks(name)) \o <<" ">> }

\* C11: the normalized name of every kept record is a fixed point of
\* normalize_spanish_name, and every name that differs from the record's
\* name only in letter case, in diacritics or in surrounding whitespace has
\* the same normalized name.
NormalizeIsIdempotent ==
    \A k \in 1..Len(filtered_people) :
        LET nombre == filtered_people[k]["nombre"]
            normalized == normalize_spanish_name(nombre)
        IN  /\ nombre # <<>> =>
                   filtered_people[k]["nombre_normalized"] = normalized
            /\ normalize_spanish_name(normalized) = normalized
            /\ \A variant \in Variants(nombre) :
                   normalize_spanish_name(variant) = normalized

\* C11, its case: a name with a mark of its own before a space and an
\* upper-case precomposed letter was normalized to the bare letter.
NormalizeIsIdempotentWitness ==
    /\ Filtered
    /\ \E k \in 1..Len(filtered_people) :
          /\ filtered_people[k]["nombre"] = <<"comb_acute", " ", "N_tilde">>
          /\ filtered_people[k]["nombre_normalized"] = <<"n">>

(***************************************************************************)
(* parse_markdown_table, on every small table of two person columns.       *)
(***************************************************************************)
MaxSessions == 2

sMailZ == <<"z", "@", "x">>

sJ == <<"J">>

SessionNames == <<sS1, sS2, <<"S", "3">>, <<"S", "4">>>>

StatusCells == {sA, sX, sJ, sBlank}

\* The disk whose first file holds the rows and whose other files hold none.
DiskOf(rows) ==
    [path \in Range(CsvFilenames) |->
        [ readable |-> TRUE, mapped |-> FullHeader.mapped,
          questions |-> FullHeader.questions,
          rows |-> IF path = CsvFilenames[1] THEN rows ELSE <<>> ]]

RowsTable ==
    << Row(sAl, sMailLower, <<>>, <<>>, <<>>, sOk),
       Row(sZed, sMailZ, <<>>, <<>>, <<>>, sOk) >>

\* The tables of Al and Zed with at most MaxSessions session rows.
AttendanceTables ==
    { [ readable |-> TRUE,
        lines |-> << PipeLine(<<<<>>, sSesion, sAl, sZed, <<>>>>),
                     PipeLine(<<<<>>, <<"-">>, <<"-">>, <<"-">>, <<>>>>) >>
                  \o [k \in 1..Len(statuses) |->
                         PipeLine(<<<<>>, SessionNames[k], statuses[k][1],
                                    statuses[k][2], <<>>>>)] ] :
      statuses \in SeqsUpTo(StatusCells \X StatusCells, MaxSessions) }

InitTable ==
    InitWith({DiskOf(RowsTable)},
             { Directory(<<Entry(<<"intro", ".md">>, table)>>) :
                   table \in AttendanceTables })

SpecTable == InitTable /\ [][Next]_vars

\* The table of a course of the attendance directory.
TableOfCourse(course) ==
    (CHOOSE e \in Range(attdir.entries) :
         CourseName(PathJoin("./sources/attendance", e.name)) = course).table

\* The session rows of a table: the lines after the header and the separator.
SessionRows(table) == SubSeq(table.lines, 3, Len(table.lines))

\* The column of a name in the header row.
ColumnOf(table, name) ==
    CHOOSE j \in 1..Len(table.lines[1].cells) :
        Strip(table.lines[1].cells[j]) = name

\* The status a session row has in a column.
StatusIn(row, column) == Strip(row.cells[column])

\* The session a row is of.
SessionOf(row) == Strip(row.cells[2])

\* The number of session rows with one of the statuses in the column.
RowsWithStatus(table, column, statuses) ==
    Cardinality({r \in 1..Len(SessionRows(table)) :
                    StatusIn(SessionRows(table)[r], column) \in statuses})

\* rate, in hundredths of a percent, is attended / total * 100 rounded to
\* two decimals.
IsRoundedRate(rate, attended, total) ==
    IF total = 0 THEN rate = 0
    ELSE LET d == 10000 * attended - rate * total
         IN  2 * d <= total /\ -2 * d <= total

\* The attendance records attached to the merged persons, each with the
\* name of its person.
AttendanceRecords ==
    UNION { {result[g]["nombre"]} \X Range(result[g]["attendance"]) :
                g \in {h \in 1..Len(result) : "attendance" \in DOMAIN result[h]} }

\* C12: the stats of every attendance record count the session rows of its
\* table and the statuses of its person's column: total_sessions is the
\* number of session rows, attended the number of rows with A or X in the
\* column, justified the number with J, and attendance_rate is
\* attended / total * 100 rounded to two decimals, 0 without sessions.
StatsCountOwnColumn ==
    \A nr \in AttendanceRecords :
        LET table == TableOfCourse(nr[2].course)
            column == ColumnOf(table, nr[1])
            stats == nr[2].stats
            attended == RowsWithStatus(table, column, {sA, sX})
        IN  /\ stats.total_sessions = Len(SessionRows(table))
            /\ stats.attended = attended
            /\ stats.justified = RowsWithStatus(table, column, {sJ})
            /\ IsRoundedRate(stats.attendance_rate, attended,
                             Len(SessionRows(table)))

\* C13: the sessions of every attendance record have an entry for a session
\* row exactly when the row's cell in the column of the record's person is
\* not blank, and the entry is the status of that cell.
StatusOfOwnColumn ==
    \A nr \in AttendanceRecords :
        LET table == TableOfCourse(nr[2].course)
            column == ColumnOf(table, nr[1])
        IN  \A r \in 1..Len(SessionRows(table)) :
                LET row == SessionRows(table)[r]
                IN  /\ SessionOf(row) \in DictKeys(nr[2].sessions)
                           <=> StatusIn(row, column) # <<>>
                    /\ StatusIn(row, column) # <<>> =>
                           DictGet(nr[2].sessions, SessionOf(row))
                               = StatusIn(row, column)

(***************************************************************************)
(* match_person_name, on registries of at most MaxRows persons.            *)
(***************************************************************************)
wAna == <<"A", "n", "a">>

wAnaAccented == <<"A", "n", "a_acute">>

wPaz == <<"P", "a", "z">>

wRuiz == <<"R", "u", "i", "z">>

wSoto == <<"S", "o", "t", "o">>

wDe == <<"d", "e">>

wLa == <<"L", "a">>

wDona == <<"D", "o", "n_tilde", "a">>

wBo == <<"B", "o">>

wCy == <<"C", "y">>

wDi == <<"D", "i">>

\* The rows of the registries: a name and an email of its own.
RowsMatch ==
    { Row(JoinSpace(<<wAna, wPaz, wRuiz, wSoto>>), <<"1", "@", "x">>,
          <<>>, <<>>, <<>>, sOk),
      Row(JoinSpace(<<wAnaAccented, wPaz>>), <<"2", "@", "x">>,
          <<>>, <<>>, <<>>, sOk),
      Row(JoinSpace(<<wPaz, wAna>>), <<"3", "@", "x">>, <<>>, <<>>, <<>>, sOk),
      Row(Lower(JoinSpace(<<wAna, wPaz>>)), <<"4", "@", "x">>,
          <<>>, <<>>, <<>>, sOk),
      Row(wRuiz, <<"5", "@", "x">>, <<>>, <<>>, <<>>, sOk),
      Row(JoinSpace(<<wDe, wLa>>), <<"6", "@", "x">>, <<>>, <<>>, <<>>, sOk) }

\* The names of the attendance tables.
AttendanceNames ==
    { Upper(JoinSpace(<<wAna, wPaz>>)),
      JoinSpace(<<wAna, wRuiz>>),
      JoinSpace(<<wDona, wAna, wPaz>>),
      JoinSpace(<<wAna, wBo, wCy, wDi>>),
      wLa,
      sZed }

\* The registries: at most MaxRows different rows in the first file.
DisksMatch ==
    { DiskOf(rows) : rows \in { r \in SeqsUpTo(RowsMatch, MaxRows) :
                                  \A a, b \in DOMAIN r : a # b => r[a] # r[b] } }

\* The table of one name and one session.
TableOfName(name) ==
    [ readable |-> TRUE,
      lines |-> << PipeLine(<<<<>>, sSesion, name, <<>>>>),
                   PipeLine(<<<<>>, <<"-">>, <<"-">>, <<>>>>),
                   PipeLine(<<<<>>, sS1, sA, <<>>>>) >> ]

InitMatch ==
    InitWith(DisksMatch,
             { Directory(<<Entry(<<"intro", ".md">>, TableOfName(name))>>) :
                   name \in AttendanceNames })

SpecMatch == InitMatch /\ [][Next]_vars

\* The names of the header row of a table.
HeaderNames(table) ==
    LET names == SelectSeq([k \in 1..Len(table.lines[1].cells) |->
                               Strip(table.lines[1].cells[k])],
                           LAMBDA cell : cell # <<>>)
    IN  {names[k] : k \in 2..Len(names)}

\* The names of the tables of the attendance directory.
NamesOfDirectory ==
    UNION {HeaderNames(attdir.entries[k].table) : k \in 1..Len(attdir.entries)}

\* The registry entries an attendance record is attached to.
Attached == {g \in 1..Len(result) : "attendance" \in DOMAIN result[g]}

\* The registry entries whose normalized name is the normalized name.
ExactMatches(name) ==
    {g \in 1..Len(result) :
        normalize_spanish_name(result[g]["nombre"]) = normalize_spanish_name(name)}

First(S) == CHOOSE g \in S : \A h \in S : g <= h

\* C14: when the attendance files have been processed, a name of which the
\* registry has entries with the same normalized name was matched to the
\* first of them, and to no other entry.
ExactMatchShortCircuits ==
    pc = "done" =>
        \A name \in NamesOfDirectory :
            ExactMatches(name) # {} =>
                /\ match_person_name(name, result) = First(ExactMatches(name))
                /\ Attached = {First(ExactMatches(name))}

\* C14, its case: the name was matched to the second entry, of the same
\* normalized name, though the first entry has the same words and the
\* third entry has the same normalized name as well.
ExactMatchShortCircuitsWitness ==
    /\ pc = "done"
    /\ \E name \in NamesOfDirectory :
          /\ ExactMatches(name) = {2, 3}
          /\ NameWords(normalize_spanish_name(result[1]["nombre"]))
                 = NameWords(normalize_spanish_name(name))
          /\ Attached = {2}

\* The stop words: articles, conjunctions and honorifics, as they are
\* after normalization.
StopWords ==
    { <<"d", "e">>, <<"d", "e", "l">>, <<"l", "a">>, <<"l", "a", "s">>,
      <<"l", "o", "s">>, <<"y">>, <<"e">>, <<"d", "o", "n">>,
      <<"d", "o", "n", "a">>, <<"d", "r">>, <<"d", "r", "a">> }

\* The words of a name without the stop words.
FilteredWords(name) == Range(Split(normalize_spanish_name(name))) \ StopWords

Shared(name, g) ==
    Cardinality(FilteredWords(name) \cap FilteredWords(result[g]["nombre"]))

United(name, g) ==
    Cardinality(FilteredWords(name) \cup FilteredWords(result[g]["nombre"]))

\* The Jaccard score of entry g is higher than that of entry h.
ScoresHigher(name, g, h) ==
    Shared(name, g) * United(name, h) > Shared(name, h) * United(name, g)

\* The entries that share a word with the name.
Sharing(name) == {g \in 1..Len(result) : Shared(name, g) > 0}

\* The first entry with the highest score among those that share a word.
BestEntry(name) ==
    CHOOSE g \in Sharing(name) :
        /\ \A h \in Sharing(name) : ~ScoresHigher(name, h, g)
        /\ \A h \in Sharing(name) : h < g => ScoresHigher(name, g, h)

\* The entries the name is to be matched to without an exact match.
ExpectedMatch(name) ==
    IF Sharing(name) = {} THEN {}
    ELSE LET g == BestEntry(name)
         IN  IF \/ 2 * Shared(name, g) >= United(name, g)
                \/ Cardinality(FilteredWords(name)) <= 2
             THEN {g} ELSE {}

\* C15: when the attendance files have been processed, a name without an
\* exact match was matched to the first entry with the highest Jaccard
\* score over the word sets without stop words, if that entry shares a word
\* with the name and its score is at least 1/2 or the name has at most two
\* words, and to no entry otherwise.
BestJaccardAboveThreshold ==
    pc = "done" =>
        \A name \in NamesOfDirectory :
            ExactMatches(name) = {} =>
                /\ Attached = ExpectedMatch(name)
                /\ match_person_name(name, result) \in ExpectedMatch(name) \cup {None}
                /\ match_person_name(name, result) = None
                       <=> ExpectedMatch(name) = {}

(***************************************************************************)
(* The effect of one attendance file on the registry.                      *)
(***************************************************************************)
\* The attendance list of a person, empty while it has none.
AttendanceList(person) == Get(person, "attendance", <<>>)

\* The names of the table of the current entry that are matched to entry g.
MatchedTo(g) ==
    {name \in HeaderNames(attdir.entries[ai].table) :
         match_person_name(name, result) = g}

\* The step parses the table of the current entry.
ParsesTable ==
    /\ pc = "listing"
    /\ pc' \in {"listing", "done"}
    /\ EndsWithMd(attdir.entries[ai].name)

\* C16: a step that processes an attendance file appends to every entry
\* one record of the file's course for every name of the file matched to
\* it and nothing else, leaves the file's path in the sources of every
\* entry a name was matched to, leaves an entry no name was matched to as
\* it is, and leaves the identity fields and the submissions of every
\* entry as they are.
AttendanceFrame ==
    [][ParsesTable =>
          LET file_path == PathJoin("./sources/attendance", attdir.entries[ai].name)
          IN  /\ Len(result') = Len(result)
              /\ \A g \in 1..Len(result) :
                    LET before == AttendanceList(result[g])
                        after == AttendanceList(result'[g])
                    IN  /\ Len(after) = Len(before) + Cardinality(MatchedTo(g))
                        /\ SubSeq(after, 1, Len(before)) = before
                        /\ \A a \in (Len(before) + 1)..Len(after) :
                               after[a].course = CourseName(file_path)
                        /\ MatchedTo(g) # {} =>
                               file_path \in Range(result'[g]["sources"])
                        /\ MatchedTo(g) = {} => result'[g] = result[g]
                        /\ \A f \in IdentityFields \cup {"postulaciones"} :
                               result'[g][f] = result[g][f]]_vars

\* C16, its case: of three entries the second one got the record and the
\* path of the file, and the other two have neither.
AttendanceFrameWitness ==
    /\ pc = "done"
    /\ Len(result) = 3
    /\ Attached = {2}
    /\ \A g \in 1..3 :
          PathJoin("./sources/attendance", attdir.entries[1].name)
              \in Range(result[g]["sources"]) <=> g = 2

(***************************************************************************)
(* Files that cannot be read.                                              *)
(***************************************************************************)
\* C17: no run is aborted by an exception: whatever the source files and
\* the attendance directory hold, process_csv_files and
\* process_attendance_files never raise.
NoInputAborts == pc # "raised"

(***************************************************************************)
(* The normalized name of a merged person.                                 *)
(***************************************************************************)
\* C18: the normalized name of every merged person is the normalization
\* of its merged name.
NormalizedNameOfMergedName ==
    \A g \in 1..Len(result) :
        result[g]["nombre_normalized"]
            = normalize_spanish_name(result[g]["nombre"])

(***************************************************************************)
(* Keys of records with and without an email.                              *)
(***************************************************************************)
sMailLikeKey == no_email_ \o <<"a", "_", "@", "b">>

RowsDisjoint ==
    { Row(sLowerA, <<>>, sHandle, <<>>, <<>>, sOk),
      Row(sAl, sMailLikeKey, <<>>, <<>>, <<>>, sOk),
      Row(sAl, sMailLower, <<>>, <<>>, <<>>, sOk),
      Row(sAl, <<>>, <<>>, <<>>, <<>>, <<>>) }

InitDisjoint == InitWith(Disks(RowsDisjoint, {FullHeader}), AttDirsOne)

SpecDisjoint == InitDisjoint /\ [][Next]_vars

\* C19: once grouping has ended, a kept record with an email and a kept
\* record without one are never in the same group.
EmailAndFallbackKeysDisjoint ==
    Grouped =>
        \A p, q \in Range(filtered_people) :
            (NormalizedEmail(p) # <<>> /\ NormalizedEmail(q) = <<>>) =>
                ~SameGroup(p, q)

(***************************************************************************)
(* Attendance records per course and person.                               *)
(***************************************************************************)
\* The number of records of the course in the attendance list.
RecordsOfCourse(list, course) ==
    Cardinality({a \in 1..Len(list) : list[a].course = course})

RECURSIVE AttachedOfCourse(_, _)
AttachedOfCourse(people_data, course) ==
    IF people_data = <<>> THEN 0
    ELSE RecordsOfCourse(AttendanceList(Head(people_data)), course)
             + AttachedOfCourse(Tail(people_data), course)

\* C20: no attendance list holds two records of the same course, and of
\* every table at most one record for each of its names is attached, so no
\* record is attached to two persons.
OneRecordPerCourseAndPerson ==
    /\ \A g \in 1..Len(result) :
          \A a, b \in 1..Len(AttendanceList(result[g])) :
              a # b => AttendanceList(result[g])[a].course
                           # AttendanceList(result[g])[b].course
    /\ \A k \in 1..Len(attdir.entries) :
          attdir.entries[k].table.readable =>
              AttachedOfCourse(result,
                  CourseName(PathJoin("./sources/attendance",
                                      attdir.entries[k].name)))
                  <= Cardinality(HeaderNames(attdir.entries[k].table))

====
